---- MODULE Spec2Model ----
(***************************************************************************)
(* Model of utils/supabase_utils.py: the memoized Supabase client factory  *)
(* supabase() and the HTTP session factory http_session().                 *)
(*                                                                         *)
(* Spec      : calls are sequential; every call is one atomic action.      *)
(* SpecConc  : several threads call supabase(); the memoization wrapper's  *)
(*             cache lookup, the function body and the cache store are     *)
(*             separate steps that interleave.                             *)
(***************************************************************************)
EXTENDS Integers, Sequences, FiniteSets

VARIABLES
    env,        \* os.environ restricted to the three Supabase variables
    cache,      \* lru_cache store of supabase(): {} or {client}
    nextId,     \* identity of the next object to be allocated
    calls,      \* number of supabase() calls started so far
    invocations,\* history: number of create_client invocations so far
    constructed,\* history: number of create_client invocations that returned
    logged,     \* history: number of records passed to logger.debug so far
    returned,   \* history: clients handed back by supabase()
    last,       \* what the most recent completed supabase() call did and gave
    sessions,   \* history: sessions handed back by http_session(), in order
    lastSession,\* the most recent http_session() call: its arguments and result
    pc,         \* per thread: position inside the memoized supabase()
    local       \* per thread: result of the function body, awaiting store

vars == <<env, cache, nextId, calls, invocations, constructed, logged, returned, last,
          sessions, lastSession, pc, local>>

----------------------------------------------------------------------------
(* Bounds of the model *)

MaxCalls == 3

MaxSessions == 2

NumThreads == 2

----------------------------------------------------------------------------
(* Environment *)

SUPABASE_URL_ENV == "SUPABASE_URL"

SUPABASE_KEY_ENV_FALLBACKS == <<"SUPABASE_SERVICE_ROLE_KEY", "SUPABASE_KEY">>

EnvNames == {SUPABASE_URL_ENV} \cup {SUPABASE_KEY_ENV_FALLBACKS[i] : i \in 1..Len(SUPABASE_KEY_ENV_FALLBACKS)}

\* The value os.getenv gives for a variable that is not set.
None == "<None>"

\* What each variable may hold: unset, the empty string, or a text.  The
\* texts differ from variable to variable, so a value tells where it came from.
EnvValues(name) ==
    IF name = SUPABASE_URL_ENV THEN {None, "", "https://a", "https://b"}
    ELSE IF name = SUPABASE_KEY_ENV_FALLBACKS[1] THEN {None, "", "service"}
    ELSE {None, "", "anon"}

Environments ==
    {e \in [EnvNames -> UNION {EnvValues(n) : n \in EnvNames}] :
        \A n \in EnvNames : e[n] \in EnvValues(n)}

getenv(e, name) == e[name]

\* Python truthiness of an Optional[str]: None and "" are falsy.
Truthy(v) == v # None /\ v # ""

\* Lines 55-59:  key = None; for env_name in FALLBACKS: key = getenv(..); if key: break
\* A variant without the break: the last name read wins.
RECURSIVE KeyLoopNoBreak(_, _, _)
KeyLoopNoBreak(e, i, key) ==
    IF i > Len(SUPABASE_KEY_ENV_FALLBACKS) THEN key
    ELSE KeyLoopNoBreak(e, i + 1, getenv(e, SUPABASE_KEY_ENV_FALLBACKS[i]))

RECURSIVE KeyLoop(_, _, _)
KeyLoop(e, i, key) ==
    IF i > Len(SUPABASE_KEY_ENV_FALLBACKS) THEN key
    ELSE LET k == getenv(e, SUPABASE_KEY_ENV_FALLBACKS[i])
         IN  IF Truthy(k) THEN k ELSE KeyLoop(e, i + 1, k)

ResolveKey(e) == KeyLoop(e, 1, None)

ResolveUrl(e) == getenv(e, SUPABASE_URL_ENV)

\* A variant with "and" for "or".
MissingBoth(url, key) == ~Truthy(url) /\ ~Truthy(key)

\* Line 61: if not url or not key
MissingCredentials(url, key) == ~Truthy(url) \/ ~Truthy(key)

\* A variant that leaves the URL variable's name out.
ErrorMessageNoName == <<"Missing", "Supabase", "credentials">>

\* Lines 62-64: the text of the RuntimeError, word by word (the dash of the
\* source is written "-").
ErrorMessage ==
    <<"Missing", "Supabase", "credentials", "-", "set", "SUPABASE_URL",
      "and", "a", "service/anon", "key">>

NoMessage == <<>>

----------------------------------------------------------------------------
(* The body of supabase(), lines 54-67.                                    *)
(* ok is the outcome of the library call create_client(url, key): it       *)
(* either returns a new client or raises, and the exception propagates.    *)

Client(id, url, key) == [id |-> id, url |-> url, key |-> key]

\* Line 66: logger.debug("Creating Supabase client for %s", url)
LogEvent(url) == [ev |-> "debug", url |-> url, key |-> None, ok |-> TRUE]

\* Line 67: create_client(url, key)
CreateEvent(url, key, ok) == [ev |-> "create_client", url |-> url, key |-> key, ok |-> ok]

\* A variant that logs before it checks the credentials.
BodyLogsFirst(e, ok, id) ==
    LET url == ResolveUrl(e)
        key == ResolveKey(e)
    IN  IF MissingCredentials(url, key)
        THEN [outcome |-> "config_error", value |-> {}, events |-> <<LogEvent(url)>>,
              msg |-> ErrorMessage]
        ELSE [outcome |-> IF ok THEN "client" ELSE "lib_error",
              value   |-> IF ok THEN {Client(id, url, key)} ELSE {},
              events  |-> <<LogEvent(url), CreateEvent(url, key, ok)>>,
              msg     |-> NoMessage]

\* A variant that returns a client-less handle where it should raise, so
\* that the wrapper stores it.
BodyReturnsOnMissing(e, ok, id) ==
    LET url == ResolveUrl(e)
        key == ResolveKey(e)
    IN  IF MissingCredentials(url, key)
        THEN [outcome |-> "config_error", value |-> {Client(id, url, key)},
              events |-> <<>>, msg |-> ErrorMessage]
        ELSE [outcome |-> IF ok THEN "client" ELSE "lib_error",
              value   |-> IF ok THEN {Client(id, url, key)} ELSE {},
              events  |-> <<LogEvent(url), CreateEvent(url, key, ok)>>,
              msg     |-> NoMessage]

\* events: what the body did, in program order.
BodyResult(e, ok, id) ==
    LET url == ResolveUrl(e)
        key == ResolveKey(e)
    IN  IF MissingCredentials(url, key)
        THEN [outcome |-> "config_error", value |-> {}, events |-> <<>>,
              msg |-> ErrorMessage]
        ELSE [outcome |-> IF ok THEN "client" ELSE "lib_error",
              value   |-> IF ok THEN {Client(id, url, key)} ELSE {},
              events  |-> <<LogEvent(url), CreateEvent(url, key, ok)>>,
              msg     |-> NoMessage]

Count(events, kind) == Cardinality({i \in DOMAIN events : events[i].ev = kind})

CountOk(events) ==
    Cardinality({i \in DOMAIN events : events[i].ev = "create_client" /\ events[i].ok})

----------------------------------------------------------------------------
(* functools.lru_cache(maxsize=1) around a function of no arguments: one   *)
(* key, so the store is empty or holds one result.                         *)

\* A variant without the memoization: every call misses.
CacheNeverHit(c) == FALSE

CacheHit(c) == c # {}

\* A variant that stores nothing.
CacheStoreNothing(c, value) == c

\* After the body returned: the result is stored unless the key was added
\* to the cache while the body ran; an exception stores nothing.
CacheStore(c, value) == IF c # {} THEN c ELSE value

----------------------------------------------------------------------------
(* http_session(), lines 74-98.  The back-off factor is a float in the     *)
(* source; it is kept here in hundredths (1.25 is 125).                    *)

STATUS_FORCELIST == {429, 500, 502, 503, 504}

ALLOWED_METHODS == {"HEAD", "GET", "OPTIONS", "POST", "PUT", "DELETE", "PATCH"}

DefaultTotalRetries == 5

DefaultBackoffFactor == 125

Prefixes == {"https://", "http://"}

\* An omitted argument is {}, a passed one {value}.
ArgOr(arg, default) == IF arg = {} THEN default ELSE CHOOSE x \in arg : TRUE

Retry(total, backoff_factor, status_forcelist, allowed_methods) ==
    [total |-> total, backoff_factor |-> backoff_factor,
     status_forcelist |-> status_forcelist, allowed_methods |-> allowed_methods]

HTTPAdapter(id, max_retries) == [id |-> id, max_retries |-> max_retries]

\* requests.Session(): a fresh session with the library's own adapters
\* (no retries) on both prefixes.
LibraryRetry == Retry(0, 0, {}, {"HEAD", "GET", "PUT", "DELETE", "OPTIONS", "TRACE"})

NewSession(id) ==
    [id |-> id,
     adapters |-> [p \in Prefixes |->
                     HTTPAdapter(IF p = "https://" THEN id + 1 ELSE id + 2, LibraryRetry)]]

Mount(session, prefix, adapter) == [session EXCEPT !.adapters[prefix] = adapter]

\* Objects one http_session() call allocates: the session, the library's
\* two adapters, the retrying adapter.
SessionObjects == 4

\* A variant that mounts the retrying adapter on "https://" alone.
BuildSessionHttpsOnly(id, total_retries, backoff_factor) ==
    LET session == NewSession(id)
        retry_strategy ==
            Retry(ArgOr(total_retries, DefaultTotalRetries),
                  ArgOr(backoff_factor, DefaultBackoffFactor),
                  STATUS_FORCELIST, ALLOWED_METHODS)
        adapter == HTTPAdapter(id + 3, retry_strategy)
    IN  Mount(session, "https://", adapter)

BuildSession(id, total_retries, backoff_factor) ==
    LET session == NewSession(id)
        retry_strategy ==
            Retry(ArgOr(total_retries, DefaultTotalRetries),
                  ArgOr(backoff_factor, DefaultBackoffFactor),
                  STATUS_FORCELIST, ALLOWED_METHODS)
        adapter == HTTPAdapter(id + 3, retry_strategy)
    IN  Mount(Mount(session, "https://", adapter), "http://", adapter)

----------------------------------------------------------------------------
(* State *)

Threads == 1..NumThreads

NoCall ==
    [outcome |-> "none", ret |-> {}, envRead |-> FALSE, events |-> <<>>, msg |-> NoMessage]

NoSessionCall == [ret |-> {}, total_retries |-> {}, backoff_factor |-> {}]

\* What the caller of supabase() observes.
Observed(outcome, value, envRead, events, msg) ==
    [outcome |-> outcome, ret |-> {c.id : c \in value}, envRead |-> envRead,
     events |-> events, msg |-> msg]

\* A thread that is not between the body and the store holds no result.
NoResult == [outcome |-> "none", value |-> {}, events |-> <<>>, msg |-> NoMessage]

Init ==
    /\ env \in Environments
    /\ cache = {}
    /\ nextId = 1
    /\ calls = 0
    /\ invocations = 0
    /\ constructed = 0
    /\ logged = 0
    /\ returned = {}
    /\ last = NoCall
    /\ sessions = <<>>
    /\ lastSession = NoSessionCall
    /\ pc = [t \in Threads |-> "idle"]
    /\ local = [t \in Threads |-> NoResult]

\* os.environ[name] = value, or del os.environ[name], between calls.
SetEnv ==
    /\ \E name \in EnvNames : \E v \in EnvValues(name) :
          /\ v # env[name]
          /\ env' = [env EXCEPT ![name] = v]
    /\ UNCHANGED <<cache, nextId, calls, invocations, constructed, logged, returned, last,
                 sessions, lastSession, pc, local>>

\* One whole call of the memoized supabase(): lookup, body on a miss, store.
Supabase ==
    /\ calls < MaxCalls
    /\ calls' = calls + 1
    /\ IF CacheHit(cache)
       THEN /\ last' = Observed("client", cache, FALSE, <<>>, NoMessage)
            /\ returned' = returned \cup cache
            /\ UNCHANGED <<cache, nextId, invocations, constructed, logged>>
       ELSE \E ok \in BOOLEAN :
              LET r == BodyResult(env, ok, nextId)
              IN  /\ logged' = logged + Count(r.events, "debug")
                  /\ invocations' = invocations + Count(r.events, "create_client")
                  /\ constructed' = constructed + CountOk(r.events)
                  /\ cache' = CacheStore(cache, r.value)
                  /\ nextId' = nextId + Cardinality(r.value)
                  /\ returned' = returned \cup r.value
                  /\ last' = Observed(r.outcome, r.value, TRUE, r.events, r.msg)
    /\ UNCHANGED <<env, sessions, lastSession, pc, local>>

TotalRetriesArgs == {{}, {3}}

BackoffFactorArgs == {{}, {50}}

\* A variant that keeps the first session and hands it out again.
HttpSessionReused ==
    /\ Len(sessions) < MaxSessions
    /\ \E total_retries \in TotalRetriesArgs, backoff_factor \in BackoffFactorArgs :
          LET session == IF sessions = <<>>
                         THEN BuildSession(nextId, total_retries, backoff_factor)
                         ELSE sessions[1]
          IN  /\ sessions' = Append(sessions, session)
              /\ nextId' = IF sessions = <<>> THEN nextId + SessionObjects ELSE nextId
              /\ lastSession' = [ret |-> {session.id}, total_retries |-> total_retries,
                                  backoff_factor |-> backoff_factor]
    /\ UNCHANGED <<env, cache, calls, invocations, constructed, logged, returned, last,
                   pc, local>>

\* One whole call of http_session(total_retries, backoff_factor).
HttpSession ==
    /\ Len(sessions) < MaxSessions
    /\ \E total_retries \in TotalRetriesArgs, backoff_factor \in BackoffFactorArgs :
          LET session == BuildSession(nextId, total_retries, backoff_factor)
          IN  /\ sessions' = Append(sessions, session)
              /\ nextId' = nextId + SessionObjects
              /\ lastSession' = [ret |-> {session.id}, total_retries |-> total_retries,
                                  backoff_factor |-> backoff_factor]
    /\ UNCHANGED <<env, cache, calls, invocations, constructed, logged, returned, last,
                   pc, local>>

Next == SetEnv \/ Supabase \/ HttpSession

Spec == Init /\ [][Next]_vars

----------------------------------------------------------------------------
(* Threads calling supabase().  lru_cache holds its lock for the lookup    *)
(* and for the store, never while the wrapped function runs, so a call is  *)
(* three steps: lookup, body, store.                                       *)

\* The wrapper looks the key up: a hit returns the stored client at once.
Lookup(t) ==
    /\ pc[t] = "idle"
    /\ calls < MaxCalls
    /\ calls' = calls + 1
    /\ IF CacheHit(cache)
       THEN /\ last' = Observed("client", cache, FALSE, <<>>, NoMessage)
            /\ returned' = returned \cup cache
            /\ UNCHANGED pc
       ELSE /\ pc' = [pc EXCEPT ![t] = "body"]
            /\ UNCHANGED <<last, returned>>
    /\ UNCHANGED <<env, cache, nextId, invocations, constructed, logged, sessions, lastSession, local>>

\* On a miss the wrapper runs the function; an exception leaves the wrapper
\* without a store.
Body(t) ==
    /\ pc[t] = "body"
    /\ \E ok \in BOOLEAN :
          LET r == BodyResult(env, ok, nextId)
          IN  /\ logged' = logged + Count(r.events, "debug")
              /\ invocations' = invocations + Count(r.events, "create_client")
              /\ constructed' = constructed + CountOk(r.events)
              /\ nextId' = nextId + Cardinality(r.value)
              /\ IF r.value = {}
                 THEN /\ last' = Observed(r.outcome, r.value, TRUE, r.events, r.msg)
                      /\ pc' = [pc EXCEPT ![t] = "idle"]
                      /\ UNCHANGED local
                 ELSE /\ local' = [local EXCEPT ![t] = r]
                      /\ pc' = [pc EXCEPT ![t] = "store"]
                      /\ UNCHANGED last
    /\ UNCHANGED <<env, cache, calls, returned, sessions, lastSession>>

\* The wrapper stores the result, unless the key got into the cache while
\* the function ran, and returns the result the function gave it.
Store(t) ==
    /\ pc[t] = "store"
    /\ cache' = CacheStore(cache, local[t].value)
    /\ returned' = returned \cup local[t].value
    /\ last' = Observed(local[t].outcome, local[t].value, TRUE, local[t].events, local[t].msg)
    /\ pc' = [pc EXCEPT ![t] = "idle"]
    /\ local' = [local EXCEPT ![t] = NoResult]
    /\ UNCHANGED <<env, calls, nextId, invocations, constructed, logged, sessions, lastSession>>

NextConc == SetEnv \/ \E t \in Threads : Lookup(t) \/ Body(t) \/ Store(t)

SpecConc == Init /\ [][NextConc]_vars

----------------------------------------------------------------------------
(* Properties.  The words of the properties are defined here on their own, *)
(* apart from the operators of the model.                                  *)

URL == env["SUPABASE_URL"]

SERVICE_ROLE_KEY == env["SUPABASE_SERVICE_ROLE_KEY"]

ANON_KEY == env["SUPABASE_KEY"]

Set(v) == v # None /\ v # ""

\* The URL is set and so is one of the two keys.
CredentialsSet == Set(URL) /\ (Set(SERVICE_ROLE_KEY) \/ Set(ANON_KEY))

\* This step is a completed sequential call of supabase().
SupabaseCall == calls' = calls + 1

\* The create_client invocations of the most recent call.
Invoked(obs) == {obs.events[i] : i \in {j \in DOMAIN obs.events : obs.events[j].ev = "create_client"}}

\* The debug records of the most recent call.
Debugged(obs) == {obs.events[i] : i \in {j \in DOMAIN obs.events : obs.events[j].ev = "debug"}}

\* C1: once supabase() has returned a client, every later call returns that
\* same instance, without reading the environment, without invoking
\* create_client and without the configuration error, whatever the environment
\* has become.
C1_CachedInstance ==
    [][(returned # {} /\ SupabaseCall) =>
          /\ last'.outcome = "client"
          /\ Cardinality(last'.ret) = 1
          /\ last'.ret = {c.id : c \in returned}
          /\ returned' = returned
          /\ ~last'.envRead
          /\ last'.events = <<>>
          /\ invocations' = invocations
          /\ nextId' = nextId]_vars

\* A call served from the cache although the credentials are gone by then.
C1_Witness ==
    /\ last.outcome = "client"
    /\ ~last.envRead
    /\ calls >= 2
    /\ ~CredentialsSet
    /\ last.ret = {c.id : c \in returned}

\* C2: over sequential calls and changes of the environment, create_client
\* returns a client at most once.
C2_ConstructedOnce == constructed <= 1 /\ Cardinality(returned) <= 1

\* The client was built by a call that came after calls that built nothing,
\* one of them for missing credentials.
C2_Witness ==
    /\ constructed = 1
    /\ last.outcome = "client"
    /\ last.envRead
    /\ calls >= 2
    /\ invocations = 1

\* C3 as stated: a call that fails for missing credentials leaves the cache
\* empty, and the next call, the credentials set by then, returns a client.
C3_Original ==
    /\ [](last.outcome = "config_error" => cache = {})
    /\ [][(last.outcome = "config_error" /\ SupabaseCall /\ CredentialsSet) =>
             last'.outcome = "client"]_vars

\* C3: a call that fails for missing credentials leaves the cache empty, and
\* the next call, the credentials set by then, reads the environment again
\* and invokes create_client with what it reads: it returns and caches the
\* client create_client gives, or lets the exception of create_client through;
\* it does not raise the configuration error again.
C3_FailureNotMemoized ==
    /\ [](last.outcome = "config_error" => cache = {} /\ last.ret = {})
    /\ [][(last.outcome = "config_error" /\ SupabaseCall /\ CredentialsSet) =>
             /\ last'.envRead
             /\ last'.outcome \in {"client", "lib_error"}
             /\ \E c \in Invoked(last') :
                   /\ Invoked(last') = {c}
                   /\ c.url = URL
                   /\ IF c.ok
                      THEN /\ last'.outcome = "client"
                           /\ \E k \in cache' :
                                 cache' = {k} /\ last'.ret = {k.id} /\ k.url = URL
                      ELSE /\ last'.outcome = "lib_error"
                           /\ cache' = {}]_vars

\* A client returned by the call that followed a failure for missing
\* credentials.
C3_Witness ==
    /\ last.outcome = "client"
    /\ last.envRead
    /\ calls >= 2
    /\ invocations = 1
    /\ cache # {}
    /\ last.ret = {c.id : c \in cache}

\* C4: with the cache empty, the key given to create_client is the value of
\* SUPABASE_SERVICE_ROLE_KEY when that is set, and the value of SUPABASE_KEY
\* exactly when SUPABASE_SERVICE_ROLE_KEY is unset or empty and SUPABASE_KEY is
\* set; the URL given is the value of SUPABASE_URL.
C4_KeyPrecedence ==
    [][(cache = {} /\ SupabaseCall) =>
          /\ CredentialsSet => Invoked(last') # {}
          /\ \A c \in Invoked(last') :
                /\ c.url = URL
                /\ Set(SERVICE_ROLE_KEY) => c.key = SERVICE_ROLE_KEY
                /\ (c.key = ANON_KEY) <=> (~Set(SERVICE_ROLE_KEY) /\ Set(ANON_KEY))]_vars

\* create_client was given the service-role key although SUPABASE_KEY is set
\* too.
C4_Witness ==
    /\ last.envRead
    /\ Set(ANON_KEY)
    /\ \E c \in Invoked(last) : c.key = SERVICE_ROLE_KEY /\ c.url = URL

\* C5: with the cache empty, the call raises the configuration error, without
\* invoking create_client, exactly when SUPABASE_URL is unset or empty or both
\* keys are unset or empty.
C5_ConfigurationError ==
    [][(cache = {} /\ SupabaseCall) =>
          /\ (last'.outcome = "config_error") <=> ~CredentialsSet
          /\ last'.outcome = "config_error" =>
                /\ Invoked(last') = {}
                /\ invocations' = invocations
                /\ last'.ret = {}]_vars

\* The configuration error raised with the URL set and no key.
C5_Witness ==
    /\ last.outcome = "config_error"
    /\ Set(URL)
    /\ SERVICE_ROLE_KEY = None
    /\ ANON_KEY = ""
    /\ invocations = 0

\* C6: every call of http_session() returns a session that no earlier call
\* returned; none is kept and handed out again.
C6_FreshSession ==
    /\ \A i, j \in DOMAIN sessions : i # j => sessions[i].id # sessions[j].id
    /\ \A i \in DOMAIN sessions : sessions[i].id < nextId
    /\ lastSession.ret # {} => lastSession.ret = {sessions[Len(sessions)].id}

\* Two calls with the same arguments gave two sessions.
C6_Witness ==
    /\ Len(sessions) >= 2
    /\ sessions[1].adapters["https://"].max_retries = sessions[2].adapters["https://"].max_retries
    /\ sessions[1].id # sessions[2].id

\* The retry policy http_session(total_retries, backoff_factor) is to mount,
\* the defaults 5 and 1.25 (125 hundredths) standing in for omitted arguments.
RequestedPolicy(call) ==
    [total            |-> IF call.total_retries = {} THEN 5
                          ELSE CHOOSE n \in call.total_retries : TRUE,
     backoff_factor   |-> IF call.backoff_factor = {} THEN 125
                          ELSE CHOOSE f \in call.backoff_factor : TRUE,
     status_forcelist |-> {429, 500, 502, 503, 504},
     allowed_methods  |-> {"HEAD", "GET", "OPTIONS", "POST", "PUT", "DELETE", "PATCH"}]

\* C7: the session returned has, on "https://" and on "http://", one retry
\* policy with the total and the back-off factor asked for, the status set
\* {429, 500, 502, 503, 504} and the seven methods.
C7_RetryPolicy ==
    /\ lastSession.ret # {} =>
          \A p \in {"https://", "http://"} :
              sessions[Len(sessions)].adapters[p].max_retries = RequestedPolicy(lastSession)
    /\ \A i \in DOMAIN sessions :
          /\ sessions[i].adapters["https://"] = sessions[i].adapters["http://"]
          /\ sessions[i].adapters["http://"].max_retries.status_forcelist
                = {429, 500, 502, 503, 504}
          /\ sessions[i].adapters["http://"].max_retries.allowed_methods
                = {"HEAD", "GET", "OPTIONS", "POST", "PUT", "DELETE", "PATCH"}

\* A session asked for with three retries and the default back-off factor.
C7_Witness ==
    /\ lastSession.ret # {}
    /\ lastSession.total_retries = {3}
    /\ lastSession.backoff_factor = {}
    /\ sessions[Len(sessions)].adapters["http://"].max_retries.total = 3
    /\ sessions[Len(sessions)].adapters["http://"].max_retries.backoff_factor = 125

\* The message has this word in it.
Names(msg, word) == \E i \in DOMAIN msg : msg[i] = word

KeyVariables == {"SUPABASE_SERVICE_ROLE_KEY", "SUPABASE_KEY"}

\* C8 as stated: the message of the configuration error names the URL
\* variable and the key variable.
C8_Original ==
    last.outcome = "config_error" =>
        /\ Names(last.msg, "SUPABASE_URL")
        /\ \E k \in KeyVariables : Names(last.msg, k)

\* C8: the message of the configuration error names the URL variable,
\* SUPABASE_URL, and speaks of the key as "a service/anon key", naming neither
\* key variable; no other outcome carries a message.
C8_MessageNamesUrl ==
    /\ last.outcome = "config_error" =>
          /\ Names(last.msg, "SUPABASE_URL")
          /\ Names(last.msg, "service/anon") /\ Names(last.msg, "key")
          /\ \A k \in KeyVariables : ~Names(last.msg, k)
    /\ last.outcome # "config_error" => last.msg = <<>>

\* The configuration error raised for a missing key, the URL being set.
C8_Witness ==
    /\ last.outcome = "config_error"
    /\ Set(URL)
    /\ last.msg # <<>>

\* What every call does with the debug record: none when the call raises the
\* configuration error or is served from the cache, else one, carrying the URL
\* of the call, right before the one create_client invocation.
DebugPerCall ==
    /\ last.outcome = "config_error" => Debugged(last) = {}
    /\ ~last.envRead => Debugged(last) = {}
    /\ Debugged(last) # {} =>
          /\ Len(last.events) = 2
          /\ last.events[1].ev = "debug"
          /\ last.events[2].ev = "create_client"
          /\ last.events[1].url = last.events[2].url
    /\ Invoked(last) # {} => Debugged(last) # {}

\* C10 as stated: the debug record comes only from a call that reaches
\* construction, and once construction has succeeded it has been logged
\* exactly once.
C10_Original ==
    /\ DebugPerCall
    /\ constructed >= 1 => logged = 1

\* C10: the debug record comes only from a call that reaches construction,
\* once per create_client invocation and right before it, with the URL of that
\* call; it is logged again by every call whose create_client raises, so once
\* construction has succeeded it has been logged at least once, and exactly
\* once only when no earlier create_client raised.
C10_DebugPerInvocation ==
    /\ DebugPerCall
    /\ logged = invocations
    /\ constructed >= 1 => logged >= 1
    /\ (constructed = 1 /\ invocations = 1) => logged = 1

\* The record logged twice: create_client raised in one call and returned in a
\* later one.
C10_Witness ==
    /\ constructed = 1
    /\ logged = 2
    /\ last.outcome = "client"
    /\ Debugged(last) # {}

\* C9 as stated: with threads racing on the empty cache, the client is built
\* at most once and every caller gets the same instance.
C9_Original == constructed <= 1 /\ Cardinality(returned) <= 1

====
